---------------------------- MODULE Spec2Model ----------------------------
(***************************************************************************)
(* A model of the JSON-RPC 2.0 actor of src/src/rpc_two.ts (createRPC).    *)
(*                                                                         *)
(* Two actors, "client" and "server", are wired back to back as in         *)
(* src/src/rpc_two_test.ts: what one writes is what the other reads.       *)
(* JavaScript values are records [t, n, s, d]; an object of the wire is a  *)
(* record of its five members, each a value or Absent.  JSON.stringify     *)
(* and JSON.parse, Number(), truthiness and the `in` operator are          *)
(* modelled by what they do.  The constant member jsonrpc: "2.0" is left   *)
(* out: no branch of the code reads it.                                    *)
(*                                                                         *)
(* Three specifications: Spec, one actor facing a peer that may write any  *)
(* line; Loopback, the two actors back to back; Correlation, one actor     *)
(* that calls a peer which may write any Response.                         *)
(***************************************************************************)
EXTENDS Integers, Sequences, FiniteSets, TLC

\* ------------------------------------------------------------------ bounds
\* The calls made from outside the run loops: those of the embedders
\* (onRequest, onNotification, start, stop, sendRequest, sendNotification,
\* sendResponse) and the lines a foreign peer writes.
MaxCalls == 4

\* ------------------------------------------------------- JavaScript values
Val(t, n, s, d) == [t |-> t, n |-> n, s |-> s, d |-> d]

Absent == Val("absent", 0, "", "")
Undef == Val("undefined", 0, "", "")
Null == Val("null", 0, "", "")
NaN == Val("NaN", 0, "", "")
False == Val("boolean", 0, "", "")
EmptyList == Val("array", 0, "", "")
Num(k) == Val("number", k, "", "")
Str(x) == Val("string", 0, x, "")

createError(code, message, data) == Val("object", code, message, data)

createInternalError == createError(-32603, "Internal error", "")

createMethodNotFoundError == createError(-32601, "Method not found", "")

createParseError == createError(-32700, "Parse error", "")

\* The detail an application error carries in `data`; "" is no data.
Detail == "stack"

\* ToBoolean: undefined, null, 0, NaN, "" and false are falsy.
Truthy(v) ==
    CASE v.t \in {"absent", "undefined", "null", "NaN"} -> FALSE
      [] v.t = "number" -> v.n # 0
      [] v.t = "string" -> v.s # ""
      [] v.t = "boolean" -> v.n # 0
      [] OTHER -> TRUE

\* The decimal texts the model uses, with the numbers they denote.
NumericText == ("0" :> 0) @@ ("1" :> 1) @@ ("2" :> 2) @@ ("3" :> 3)

\* Number(v)
ToNumber(v) ==
    CASE v.t = "number" -> v
      [] v.t = "null" -> Num(0)
      [] v.t = "boolean" -> Num(v.n)
      [] v.t = "array" -> Num(0)
      [] v.t = "string" ->
            IF v.s = "" THEN Num(0)
            ELSE IF v.s \in DOMAIN NumericText THEN Num(NumericText[v.s])
            ELSE NaN
      [] OTHER -> NaN

\* ------------------------------------------------------------ wire objects
Members == {"id", "method", "params", "result", "error"}

Obj(id, method, params, result, error) ==
    [id |-> id, method |-> method, params |-> params, result |-> result,
     error |-> error]

NoObj == Obj(Absent, Absent, Absent, Absent, Absent)

\* key in object
In(key, o) == o[key] # Absent

\* object.key: undefined when the object has no such member
Get(o, key) == IF o[key] = Absent THEN Undef ELSE o[key]

\* JSON.stringify of one member: undefined drops the member, NaN is written
\* as null.
StringifyValue(v) ==
    IF v = Undef THEN Absent ELSE IF v = NaN THEN Null ELSE v

Stringify(o) == [k \in Members |-> StringifyValue(o[k])]

\* A line of text on the transport: the text of an object, the text of a
\* JSON value that is no object (5, "x", null), text that is no JSON, or the
\* empty line.
Line(kind, o) == [kind |-> kind, obj |-> o]

\* JSON.stringify(msg) as the line _write hands to the transport
Text(o) == Line("object", Stringify(o))

Actors == {"client", "server"}

Peer(a) == IF a = "client" THEN "server" ELSE "client"

\* ---------------------------------------------------------------- inputs
\* Method names a listener is registered for, and the listeners: one that
\* returns its parameter, one that throws.
RegMethods == {"test"}
Listeners == {"echo", "throw"}

\* What an embedder passes to sendRequest / sendNotification.
CallMethods == {"test", "nope"}
CallParams == {Undef, Num(0), Str("ok")}

\* What an embedder passes to sendResponse.
ResponseIds == {Num(1)}
ResponseResults == {Undef, Str("ok")}
ResponseErrors == {Undef, createError(1, "app", Detail)}

\* Lines a peer that is not this program may put on the transport.
InjectedRequests ==
    { Line("object", Obj(i, Str("test"), Str("ok"), Absent, Absent)) :
        i \in {Num(1), Str("1"), Str("abc"), Null} }
    \cup { Line("object", Obj(Num(1), Str("test"), Num(0), Absent, Absent)) }

InjectedNotifications ==
    { Line("object", Obj(Absent, Str("test"), Str("ok"), Absent, Absent)) }

InjectedResponses ==
    { Line("object", Obj(Num(1), Absent, Absent, Str("ok"), Absent)),
      Line("object", Obj(Num(1), Absent, Absent, Absent,
                         createError(1, "app", Detail))) }

\* The Responses a peer may write to an actor that calls it: for the ids 1
\* and 2, for the id 1 as text and for the id null; with a result, with an
\* error, with both.
PeerResponses ==
    { Line("object", Obj(i, Absent, Absent, Str("ok"), Absent)) :
        i \in {Num(1), Num(2), Str("1"), Null} }
    \cup { Line("object", Obj(Num(1), Absent, Absent, r,
                              createError(1, "app", Detail))) :
             r \in {Absent, Str("ok")} }

InjectedLines ==
    InjectedRequests \cup InjectedNotifications \cup InjectedResponses
    \cup { Line("object", NoObj), Line("primitive", NoObj),
           Line("malformed", NoObj), Line("empty", NoObj) }

\* ------------------------------------------------------------------ state
VARIABLES
    isRunning,              \* _isRunning
    requestID,              \* _requestID
    requestListeners,       \* _requestListeners: method -> listener
    notificationListeners,  \* _notificationListeners: method -> listener
    unresolvedRequests,     \* _unresolvedRequests: id -> call
    calls,                  \* the promises sendRequest returned, in order;
                            \* atStop: pending when stop() was called
    inbox,                  \* the lines the transport holds for each actor
    loops,                  \* the read loops start() has entered: "read" and
                            \* "drain" await io.read(), "drain" when stop()
                            \* was called since the read began; "exit"
    tasks,                  \* _handleMessage calls suspended on a listener
    received,               \* history: the lines read() returned
    written,                \* history: what _write wrote
    invoked,                \* history: the listeners called
    thrown,                 \* history: what the last registration threw
    env                     \* history: the number of calls from outside

vars == <<isRunning, requestID, requestListeners, notificationListeners,
          unresolvedRequests, calls, inbox, loops, tasks, received, written,
          invoked, thrown, env>>

Empty == [x \in {} |-> 0]

Init ==
    /\ isRunning = [a \in Actors |-> FALSE]
    /\ requestID = [a \in Actors |-> 0]
    /\ requestListeners = [a \in Actors |-> Empty]
    /\ notificationListeners = [a \in Actors |-> Empty]
    /\ unresolvedRequests = [a \in Actors |-> Empty]
    /\ calls = [a \in Actors |-> <<>>]
    /\ inbox = [a \in Actors |-> <<>>]
    /\ loops = [a \in Actors |-> <<>>]
    /\ tasks = [a \in Actors |-> {}]
    /\ received = [a \in Actors |-> <<>>]
    /\ written = [a \in Actors |-> <<>>]
    /\ invoked = [a \in Actors |-> <<>>]
    /\ thrown = [a \in Actors |-> ""]
    /\ env = 0


\* ------------------------------------------------------------------- maps
\* Map.has(key): a key that is no string names no listener.
Has(map, key) == key.t = "string" /\ key.s \in DOMAIN map

MapSet(map, k, v) == [x \in DOMAIN map \cup {k} |-> IF x = k THEN v ELSE map[x]]

MapDelete(map, k) == [x \in DOMAIN map \ {k} |-> map[x]]

\* A promise is settled once: a later resolve or reject changes nothing.
Settle(p, st, v) == IF p.st = "pending" THEN [p EXCEPT !.st = st, !.v = v] ELSE p

\* ------------------------------------------------------------ sendResponse
\* sendResponse without its else: the result is set whatever the error is.
sendResponseObjectNoElse(id, result, error) ==
    Obj(id, Absent, Absent, IF Truthy(result) THEN result ELSE EmptyList,
        IF Truthy(error) THEN error ELSE Absent)

\* The object sendResponse builds before it writes it.
sendResponseObject(id, result, error) ==
    IF Truthy(error)
    THEN Obj(id, Absent, Absent, Absent, error)
    ELSE Obj(id, Absent, Absent, IF Truthy(result) THEN result ELSE EmptyList,
             Absent)

\* One entry of the history of writes: the object as it is on the wire, the
\* place that wrote it, the number of the inbound line it answers (0: none)
\* and, for a Response, the arguments sendResponse was called with.
Written(o, by, cause, id, result, error) ==
    [msg |-> Stringify(o), by |-> by, cause |-> cause, id |-> id,
     result |-> result, error |-> error]

Response(id, result, error, by, cause) ==
    Written(sendResponseObject(id, result, error), by, cause, id, result, error)

\* What handling one inbound line does at once: the entries it writes, the
\* listener calls it leaves suspended, the listeners it called, and the
\* pending-call table and promises after it.
Effect(a, out, new, inv) ==
    [out |-> out, tasks |-> new, invoked |-> inv,
     unresolved |-> unresolvedRequests[a], calls |-> calls[a]]

Task(seq, path, msg, listener) ==
    [seq |-> seq, path |-> path, pc |-> "listener", msg |-> msg,
     listener |-> listener]

Invocation(seq, registry, msg) ==
    [seq |-> seq, registry |-> registry, method |-> Get(msg, "method"),
     params |-> Get(msg, "params")]

\* -------------------------------------------------------- inbound handling
\* _handleRequest leaving a Request for an unknown method unanswered.
handleRequestSilent(a, msg, seq) ==
    IF ~Has(requestListeners[a], Get(msg, "method"))
    THEN Effect(a, <<>>, {}, <<>>)
    ELSE Effect(a, <<>>,
                {Task(seq, "request", msg,
                      requestListeners[a][Get(msg, "method").s])},
                <<Invocation(seq, "request", msg)>>)

\* _handleRequest calling the listener in a later turn, not at dispatch.
handleRequestDeferred(a, msg, seq) ==
    IF ~Has(requestListeners[a], Get(msg, "method"))
    THEN Effect(a, <<Response(ToNumber(Get(msg, "id")), Undef,
                              createMethodNotFoundError, "notFound", seq)>>,
                {}, <<>>)
    ELSE Effect(a, <<>>,
                {Task(seq, "request", msg,
                      requestListeners[a][Get(msg, "method").s])},
                <<>>)

handleRequest(a, msg, seq) ==
    IF ~Has(requestListeners[a], Get(msg, "method"))
    THEN Effect(a, <<Response(ToNumber(Get(msg, "id")), Undef,
                              createMethodNotFoundError, "notFound", seq)>>,
                {}, <<>>)
    ELSE Effect(a, <<>>,
                {Task(seq, "request", msg,
                      requestListeners[a][Get(msg, "method").s])},
                <<Invocation(seq, "request", msg)>>)

\* _handleNotification answering an unknown method as _handleRequest does.
handleNotificationReplies(a, msg, seq) ==
    IF ~Has(notificationListeners[a], Get(msg, "method"))
    THEN Effect(a, <<Response(Null, Undef, createMethodNotFoundError,
                              "notFound", seq)>>, {}, <<>>)
    ELSE Effect(a, <<>>,
                {Task(seq, "notification", msg,
                      notificationListeners[a][Get(msg, "method").s])},
                <<Invocation(seq, "notification", msg)>>)

handleNotification(a, msg, seq) ==
    IF ~Has(notificationListeners[a], Get(msg, "method"))
    THEN Effect(a, <<>>, {}, <<>>)
    ELSE Effect(a, <<>>,
                {Task(seq, "notification", msg,
                      notificationListeners[a][Get(msg, "method").s])},
                <<Invocation(seq, "notification", msg)>>)

\* _handleResponse settling the call and leaving its entry in the table.
handleResponseKeepsEntry(a, msg, seq) ==
    LET key == ToNumber(Get(msg, "id"))
        found == key.t = "number" /\ key.n \in DOMAIN unresolvedRequests[a]
    IN  IF found
        THEN LET c == unresolvedRequests[a][key.n]
             IN  [Effect(a, <<>>, {}, <<>>) EXCEPT
                    !.calls = [calls[a] EXCEPT ![c] =
                                 IF In("error", msg)
                                 THEN Settle(@, "rejected", Get(msg, "error"))
                                 ELSE Settle(@, "fulfilled", Get(msg, "result"))]]
        ELSE Effect(a, <<>>, {}, <<>>)

\* _handleResponse answering a Response it cannot place, as a Request for an
\* unknown method is answered.
handleResponseAnswersUnknown(a, msg, seq) ==
    LET key == ToNumber(Get(msg, "id"))
        found == key.t = "number" /\ key.n \in DOMAIN unresolvedRequests[a]
    IN  IF found
        THEN LET c == unresolvedRequests[a][key.n]
             IN  [Effect(a, <<>>, {}, <<>>) EXCEPT
                    !.calls = [calls[a] EXCEPT ![c] =
                                 IF In("error", msg)
                                 THEN Settle(@, "rejected", Get(msg, "error"))
                                 ELSE Settle(@, "fulfilled", Get(msg, "result"))],
                    !.unresolved = MapDelete(unresolvedRequests[a], key.n)]
        ELSE Effect(a, <<Response(key, Undef,
                                  createError(-32600, "Invalid Request", ""),
                                  "notFound", seq)>>, {}, <<>>)

\* _handleResponse confirming the Response it settled a call with.
handleResponseAcknowledges(a, msg, seq) ==
    LET key == ToNumber(Get(msg, "id"))
        found == key.t = "number" /\ key.n \in DOMAIN unresolvedRequests[a]
    IN  IF found
        THEN LET c == unresolvedRequests[a][key.n]
             IN  [Effect(a, <<Response(key, Undef, Undef, "returned", seq)>>,
                         {}, <<>>) EXCEPT
                    !.calls = [calls[a] EXCEPT ![c] =
                                 IF In("error", msg)
                                 THEN Settle(@, "rejected", Get(msg, "error"))
                                 ELSE Settle(@, "fulfilled", Get(msg, "result"))],
                    !.unresolved = MapDelete(unresolvedRequests[a], key.n)]
        ELSE Effect(a, <<>>, {}, <<>>)

handleResponse(a, msg, seq) ==
    LET key == ToNumber(Get(msg, "id"))
        found == key.t = "number" /\ key.n \in DOMAIN unresolvedRequests[a]
    IN  IF found
        THEN LET c == unresolvedRequests[a][key.n]
             IN  [Effect(a, <<>>, {}, <<>>) EXCEPT
                    !.calls = [calls[a] EXCEPT ![c] =
                                 IF In("error", msg)
                                 THEN Settle(@, "rejected", Get(msg, "error"))
                                 ELSE Settle(@, "fulfilled", Get(msg, "result"))],
                    !.unresolved = MapDelete(unresolvedRequests[a], key.n)]
        ELSE Effect(a, <<>>, {}, <<>>)

\* The catch clause answering with Invalid Request instead of Parse error.
handleMessageCatchInvalid(a, seq) ==
    Effect(a, <<Response(Null, Undef, createError(-32600, "Invalid Request", ""),
                         "catch", seq)>>, {}, <<>>)

\* The catch clause of _handleMessage.
handleMessageCatch(a, seq) ==
    Effect(a, <<Response(Null, Undef, createParseError, "catch", seq)>>, {}, <<>>)

\* _handleMessage answering an object it cannot classify with Invalid
\* Request.
handleMessageRejectsUnclassified(a, line, seq) ==
    IF line.kind = "malformed" THEN handleMessageCatch(a, seq)
    ELSE IF line.kind = "primitive" THEN handleMessageCatch(a, seq)
    ELSE IF In("id", line.obj)
         THEN IF In("method", line.obj)
              THEN handleRequest(a, line.obj, seq)
              ELSE handleResponse(a, line.obj, seq)
         ELSE IF In("method", line.obj)
              THEN handleNotification(a, line.obj, seq)
              ELSE Effect(a, <<Response(Null, Undef,
                                        createError(-32600, "Invalid Request", ""),
                                        "catch", seq)>>, {}, <<>>)

\* _handleMessage testing for the method first: whatever has a method is
\* taken for a Request.
handleMessageMethodFirst(a, line, seq) ==
    IF line.kind = "malformed" THEN handleMessageCatch(a, seq)
    ELSE IF line.kind = "primitive" THEN handleMessageCatch(a, seq)
    ELSE IF In("method", line.obj)
         THEN handleRequest(a, line.obj, seq)
         ELSE IF In("id", line.obj)
              THEN handleResponse(a, line.obj, seq)
              ELSE handleNotification(a, line.obj, seq)

\* _handleMessage up to its first suspension. JSON.parse throws on text that
\* is no JSON; `"id" in message` throws on a value that is no object.
handleMessage(a, line, seq) ==
    IF line.kind = "malformed" THEN handleMessageCatch(a, seq)
    ELSE IF line.kind = "primitive" THEN handleMessageCatch(a, seq)
    ELSE IF In("id", line.obj)
         THEN IF In("method", line.obj)
              THEN handleRequest(a, line.obj, seq)
              ELSE handleResponse(a, line.obj, seq)
         ELSE handleNotification(a, line.obj, seq)

\* ------------------------------------------------------------ the run loop
\* The transport after actor a wrote the entries `out`.
Sent(box, a, out) ==
    [box EXCEPT ![Peer(a)] = @ \o [i \in 1..Len(out) |-> Line("object", out[i].msg)]]

\* start beginning the actor anew: the counter of ids is set back.
startResets(a) ==
    /\ env < MaxCalls
    /\ env' = env + 1
    /\ isRunning' = [isRunning EXCEPT ![a] = TRUE]
    /\ requestID' = [requestID EXCEPT ![a] = 0]
    /\ loops' = [loops EXCEPT ![a] = Append(@, "read")]
    /\ UNCHANGED <<requestListeners, notificationListeners,
                   unresolvedRequests, calls, inbox, tasks, received, written,
                   invoked, thrown>>

start(a) ==
    /\ env < MaxCalls
    /\ env' = env + 1
    /\ isRunning' = [isRunning EXCEPT ![a] = TRUE]
    /\ loops' = [loops EXCEPT ![a] = Append(@, "read")]
    /\ UNCHANGED <<requestID, requestListeners, notificationListeners,
                   unresolvedRequests, calls, inbox, tasks, received, written,
                   invoked, thrown>>

stop(a) ==
    /\ env < MaxCalls
    /\ env' = env + 1
    /\ isRunning' = [isRunning EXCEPT ![a] = FALSE]
    /\ loops' = [loops EXCEPT ![a] =
                    [i \in DOMAIN @ |-> IF @[i] = "read" THEN "drain" ELSE @[i]]]
    /\ calls' = [calls EXCEPT ![a] =
                    [k \in DOMAIN @ |->
                        IF @[k].st = "pending"
                        THEN [@[k] EXCEPT !.atStop = TRUE] ELSE @[k]]]
    /\ UNCHANGED <<requestID, requestListeners, notificationListeners,
                   unresolvedRequests, inbox, tasks, received, written,
                   invoked, thrown>>

\* One entry of the history of reads: the line, and the two registries as
\* they were when it was dispatched.
Received(a, line) ==
    [line |-> line, requests |-> requestListeners[a],
     notifications |-> notificationListeners[a]]

\* The loop awaiting the message it dispatched: it reads on when no
\* listener is suspended.
readAwaits(a, i) ==
    /\ loops[a][i] \in {"read", "drain"}
    /\ inbox[a] # <<>>
    /\ tasks[a] = {}
    /\ LET line == Head(inbox[a])
           seq == Len(received[a]) + 1
           e == IF line.kind = "empty"
                THEN Effect(a, <<>>, {}, <<>>)
                ELSE handleMessage(a, line, seq)
       IN  /\ received' = [received EXCEPT ![a] = Append(@, Received(a, line))]
           /\ inbox' = Sent([inbox EXCEPT ![a] = Tail(@)], a, e.out)
           /\ written' = [written EXCEPT ![a] = @ \o e.out]
           /\ tasks' = [tasks EXCEPT ![a] = @ \cup e.tasks]
           /\ invoked' = [invoked EXCEPT ![a] = @ \o e.invoked]
           /\ unresolvedRequests' = [unresolvedRequests EXCEPT ![a] = e.unresolved]
           /\ calls' = [calls EXCEPT ![a] = e.calls]
    /\ loops' = [loops EXCEPT ![a][i] = IF isRunning[a] THEN "read" ELSE "exit"]
    /\ UNCHANGED <<isRunning, requestID, requestListeners,
                   notificationListeners, thrown, env>>

\* A read of loop i returns the next line: the loop dispatches it unless it
\* is empty, then looks at the flag and either reads again or ends.  (An
\* awaited read returns in a later turn, so the flag the loop looked at
\* before it read tells nothing when the read returns.)
read(a, i) ==
    /\ loops[a][i] \in {"read", "drain"}
    /\ inbox[a] # <<>>
    /\ LET line == Head(inbox[a])
           seq == Len(received[a]) + 1
           e == IF line.kind = "empty"
                THEN Effect(a, <<>>, {}, <<>>)
                ELSE handleMessage(a, line, seq)
       IN  /\ received' = [received EXCEPT ![a] = Append(@, Received(a, line))]
           /\ inbox' = Sent([inbox EXCEPT ![a] = Tail(@)], a, e.out)
           /\ written' = [written EXCEPT ![a] = @ \o e.out]
           /\ tasks' = [tasks EXCEPT ![a] = @ \cup e.tasks]
           /\ invoked' = [invoked EXCEPT ![a] = @ \o e.invoked]
           /\ unresolvedRequests' = [unresolvedRequests EXCEPT ![a] = e.unresolved]
           /\ calls' = [calls EXCEPT ![a] = e.calls]
    /\ loops' = [loops EXCEPT ![a][i] = IF isRunning[a] THEN "read" ELSE "exit"]
    /\ UNCHANGED <<isRunning, requestID, requestListeners,
                   notificationListeners, thrown, env>>

\* ------------------------------------------------- listeners that complete
\* What the step of a suspended _handleMessage writes.
Step(a, t, out, next) ==
    /\ inbox' = Sent(inbox, a, out)
    /\ written' = [written EXCEPT ![a] = @ \o out]
    /\ tasks' = [tasks EXCEPT ![a] = (@ \ {t}) \cup next]
    /\ UNCHANGED <<isRunning, requestID, requestListeners,
                   notificationListeners, unresolvedRequests, calls, loops,
                   received, invoked, thrown, env>>

\* The response _handleRequest sends when its listener returned `result`.
requestReturned(t, result) ==
    <<Response(ToNumber(Get(t.msg, "id")), result, Undef, "returned", t.seq)>>

\* _handleRequest passing the detail of the failure on in the error.
requestThrewLeaks(t) ==
    <<Response(ToNumber(Get(t.msg, "id")), Undef,
               createError(-32603, "Internal error", Detail), "threw", t.seq)>>

\* The response _handleRequest sends when its listener threw.
requestThrew(t) ==
    <<Response(ToNumber(Get(t.msg, "id")), Undef, createInternalError,
               "threw", t.seq)>>

\* The listener of a Request returns: its value is sent as the result.
requestListenerReturns(a, t) ==
    /\ t \in tasks[a] /\ t.path = "request" /\ t.pc = "listener"
    /\ t.listener = "echo"
    /\ Step(a, t, requestReturned(t, Get(t.msg, "params")), {})

\* The listener of a Request throws: Internal error is sent, and the error
\* is thrown again.
requestListenerThrows(a, t) ==
    /\ t \in tasks[a] /\ t.path = "request" /\ t.pc = "listener"
    /\ t.listener = "throw"
    /\ Step(a, t, requestThrew(t), {[t EXCEPT !.pc = "rethrown"]})

\* The error _handleRequest threw again reaches the catch of _handleMessage.
requestErrorCaught(a, t) ==
    /\ t \in tasks[a] /\ t.path = "request" /\ t.pc = "rethrown"
    /\ Step(a, t, handleMessageCatch(a, t.seq).out, {})

notificationListenerReturns(a, t) ==
    /\ t \in tasks[a] /\ t.path = "notification" /\ t.pc = "listener"
    /\ t.listener = "echo"
    /\ Step(a, t, <<>>, {})

\* The listener of a Notification throws: _handleNotification throws the
\* error again, into the catch of _handleMessage.
notificationListenerThrows(a, t) ==
    /\ t \in tasks[a] /\ t.path = "notification" /\ t.pc = "listener"
    /\ t.listener = "throw"
    /\ Step(a, t, handleMessageCatch(a, t.seq).out, {})

\* ------------------------------------------------------------ the embedder
\* The Error a registration throws for a method that has a listener; the
\* text names the method.
AlreadyHasListener(method) == method

\* onRequest without its check: the later listener takes the place of the
\* first.
onRequestOverwrites(a, method, listener) ==
    /\ env < MaxCalls
    /\ env' = env + 1
    /\ thrown' = [thrown EXCEPT ![a] = ""]
    /\ requestListeners' =
          [requestListeners EXCEPT ![a] = MapSet(@, method, listener)]
    /\ UNCHANGED <<isRunning, requestID, notificationListeners,
                   unresolvedRequests, calls, inbox, loops, tasks, received,
                   written, invoked>>

onRequest(a, method, listener) ==
    /\ env < MaxCalls
    /\ env' = env + 1
    /\ IF method \in DOMAIN requestListeners[a]
       THEN /\ thrown' = [thrown EXCEPT ![a] = AlreadyHasListener(method)]
            /\ UNCHANGED requestListeners
       ELSE /\ thrown' = [thrown EXCEPT ![a] = ""]
            /\ requestListeners' =
                  [requestListeners EXCEPT ![a] = MapSet(@, method, listener)]
    /\ UNCHANGED <<isRunning, requestID, notificationListeners,
                   unresolvedRequests, calls, inbox, loops, tasks, received,
                   written, invoked>>

onNotification(a, method, listener) ==
    /\ env < MaxCalls
    /\ env' = env + 1
    /\ IF method \in DOMAIN notificationListeners[a]
       THEN /\ thrown' = [thrown EXCEPT ![a] = AlreadyHasListener(method)]
            /\ UNCHANGED notificationListeners
       ELSE /\ thrown' = [thrown EXCEPT ![a] = ""]
            /\ notificationListeners' =
                  [notificationListeners EXCEPT ![a] = MapSet(@, method, listener)]
    /\ UNCHANGED <<isRunning, requestID, requestListeners,
                   unresolvedRequests, calls, inbox, loops, tasks, received,
                   written, invoked>>

\* What an embedder's call writes.
Call(a, out) ==
    /\ inbox' = Sent(inbox, a, out)
    /\ written' = [written EXCEPT ![a] = @ \o out]
    /\ UNCHANGED <<isRunning, requestListeners, notificationListeners, loops,
                   tasks, received, invoked, thrown>>

\* sendRequest writing the Request without an entry in the table.
sendRequestUnregistered(a, method, params) ==
    /\ env < MaxCalls
    /\ LET id == requestID[a] + 1
           request == Obj(Num(id), Str(method), params, Absent, Absent)
       IN  /\ requestID' = [requestID EXCEPT ![a] = id]
           /\ calls' = [calls EXCEPT ![a] =
                          Append(@, [id |-> id, method |-> method,
                                     params |-> params, st |-> "pending",
                                     v |-> Undef, atStop |-> FALSE])]
           /\ UNCHANGED unresolvedRequests
           /\ Call(a, <<Written(request, "sendRequest", 0, Absent, Absent, Absent)>>)
    /\ env' = env + 1

sendRequest(a, method, params) ==
    /\ env < MaxCalls
    /\ LET id == requestID[a] + 1
           request == Obj(Num(id), Str(method), params, Absent, Absent)
       IN  /\ requestID' = [requestID EXCEPT ![a] = id]
           /\ calls' = [calls EXCEPT ![a] =
                          Append(@, [id |-> id, method |-> method,
                                     params |-> params, st |-> "pending",
                                     v |-> Undef, atStop |-> FALSE])]
           /\ unresolvedRequests' =
                 [unresolvedRequests EXCEPT ![a] = MapSet(@, id, Len(calls[a]) + 1)]
           /\ Call(a, <<Written(request, "sendRequest", 0, Absent, Absent, Absent)>>)
    /\ env' = env + 1

sendNotification(a, method, params) ==
    /\ env < MaxCalls
    /\ env' = env + 1
    /\ Call(a, <<Written(Obj(Absent, Str(method), params, Absent, Absent),
                         "sendNotification", 0, Absent, Absent, Absent)>>)
    /\ UNCHANGED <<requestID, calls, unresolvedRequests>>

sendResponse(a, id, result, error) ==
    /\ env < MaxCalls
    /\ env' = env + 1
    /\ Call(a, <<Response(id, result, error, "sendResponse", 0)>>)
    /\ UNCHANGED <<requestID, calls, unresolvedRequests>>

\* A peer that is not this program writes a line of its own to actor a.
inject(a, line) ==
    /\ env < MaxCalls
    /\ env' = env + 1
    /\ inbox' = [inbox EXCEPT ![a] = Append(@, line)]
    /\ UNCHANGED <<isRunning, requestID, requestListeners,
                   notificationListeners, unresolvedRequests, calls, loops,
                   tasks, received, written, invoked, thrown>>

\* ---------------------------------------------------------- specifications
\* Spec: one actor, the server, with its embedder, facing a peer that may
\* write any line.  What the server writes stays on the transport.
Register(a) ==
    \E m \in RegMethods, l \in Listeners :
        onRequest(a, m, l) \/ onNotification(a, m, l)

Lifecycle(a) == start(a) \/ stop(a)

Send(a) ==
    \E m \in RegMethods, p \in {Str("ok")} :
        sendRequest(a, m, p) \/ sendNotification(a, m, p)

Respond(a) ==
    \E id \in ResponseIds, r \in ResponseResults, e \in ResponseErrors :
        sendResponse(a, id, r, e)

Inject(a) == \E line \in InjectedLines : inject(a, line)

Read(a) == \E i \in DOMAIN loops[a] : read(a, i)

Listen(a) ==
    \E t \in tasks[a] :
        \/ requestListenerReturns(a, t)
        \/ requestListenerThrows(a, t)
        \/ requestErrorCaught(a, t)
        \/ notificationListenerReturns(a, t)
        \/ notificationListenerThrows(a, t)

Next ==
    \/ Register("server")
    \/ Lifecycle("server")
    \/ Send("server")
    \/ Respond("server")
    \/ Inject("server")
    \/ Read("server")
    \/ Listen("server")

Spec == Init /\ [][Next]_vars

\* Loopback: the two actors back to back and nothing else on the transport,
\* as in rpc_two_test.ts: the server registers listeners, the client calls,
\* and neither is stopped.  A read returns once a line is there, and the
\* listeners of the model return or throw.
Calls(a) ==
    \/ \E m \in CallMethods, p \in CallParams : sendRequest(a, m, p)
    \/ \E m \in RegMethods : sendNotification(a, m, Str("ok"))

NextLoopback ==
    \/ Register("server")
    \/ Calls("client")
    \/ \E a \in Actors : start(a) \/ Read(a) \/ Listen(a)

Loopback ==
    /\ Init
    /\ [][NextLoopback]_vars
    /\ \A a \in Actors : WF_vars(Read(a)) /\ WF_vars(Listen(a))

\* Correlation: one actor, the client, that calls a peer and is started and
\* stopped, facing a peer that may write any Response at any time.
Answer(a) == \E line \in PeerResponses : inject(a, line)

NextCorrelation ==
    \/ \E m \in RegMethods : sendRequest("client", m, Str("ok"))
    \/ Lifecycle("client")
    \/ Answer("client")
    \/ Read("client")

Correlation == Init /\ [][NextCorrelation]_vars

\* ----------------------------------------------------------------- claims
\* The error objects of JSON-RPC 2.0 the claims name, as they are on the wire.
ParseError == [t |-> "object", n |-> -32700, s |-> "Parse error", d |-> ""]
MethodNotFound == [t |-> "object", n |-> -32601, s |-> "Method not found", d |-> ""]
InternalError == [t |-> "object", n |-> -32603, s |-> "Internal error", d |-> ""]

IsObject(line) == line.kind = "object"

\* A Request has an id and a method, a Notification a method and no id, a
\* Response no method.
IsRequest(line) ==
    IsObject(line) /\ In("id", line.obj) /\ In("method", line.obj)

IsNotification(line) ==
    IsObject(line) /\ ~In("id", line.obj) /\ In("method", line.obj)

IsResponse(o) == ~In("method", o)

\* The listener a registry held for the method of a line ("none": none).
ListenerFor(registry, line) ==
    IF Has(registry, Get(line.obj, "method"))
    THEN registry[Get(line.obj, "method").s]
    ELSE "none"

\* The entries actor a wrote because of the inbound line number s.
Answers(a, s) == { j \in DOMAIN written[a] : written[a][j].cause = s }

\* The listener calls actor a made because of the inbound line number s.
Invocations(a, s) == { j \in DOMAIN invoked[a] : invoked[a][j].seq = s }

\* C1: the Response _handleRequest writes for a Request with a registered
\* listener, whether the listener returned or threw, carries the id of the
\* Request.
C1_ResponseIdIsRequestId ==
    \A a \in Actors : \A s \in DOMAIN received[a] :
        LET r == received[a][s]
        IN  (IsRequest(r.line) /\ ListenerFor(r.requests, r.line) # "none") =>
                \A j \in Answers(a, s) :
                    written[a][j].by \in {"returned", "threw"} =>
                        written[a][j].msg.id = r.line.obj.id

\* C2: every Response written has exactly one of result and error; when
\* sendResponse is called with both a result and an error, the error is
\* written and the result is not.
C2_ExactlyOneOfResultAndError ==
    \A a \in Actors : \A j \in DOMAIN written[a] :
        LET w == written[a][j]
        IN  IsResponse(w.msg) =>
                /\ In("result", w.msg) # In("error", w.msg)
                /\ (w.result # Undef /\ w.error # Undef) =>
                        (w.msg.error = w.error /\ ~In("result", w.msg))

C2_Witness ==
    \E j \in DOMAIN written["server"] :
        LET w == written["server"][j]
        IN  /\ w.by = "sendResponse"
            /\ w.result = Str("ok") /\ w.error = createError(1, "app", Detail)
            /\ w.msg.error = w.error

\* C3: the Response written when a listener returned has no error, and its
\* result is the value returned; it is the empty list when nothing was
\* returned.
C3_ResultIsReturnValue ==
    \A a \in Actors : \A j \in DOMAIN written[a] :
        LET w == written[a][j]
        IN  w.by = "returned" =>
                /\ ~In("error", w.msg)
                /\ w.msg.result = IF w.result = Undef THEN EmptyList ELSE w.result

\* C5: a Request whose method has no request listener is answered with a
\* Response that carries the id of the Request and the Method not found
\* error, and no listener is called.
C5_MethodNotFoundWithRequestId ==
    \A a \in Actors : \A s \in DOMAIN received[a] :
        LET r == received[a][s]
        IN  (IsRequest(r.line) /\ ListenerFor(r.requests, r.line) = "none") =>
                /\ Invocations(a, s) = {}
                /\ \E j \in Answers(a, s) :
                      /\ written[a][j].msg.id = r.line.obj.id
                      /\ written[a][j].msg.error = MethodNotFound

\* C8: a Notification whose listener returns, or whose method has no
\* notification listener, makes the actor write nothing; the listener is
\* called once with the params of the Notification, and without a listener
\* nothing is called.
C8_NotificationWritesNothing ==
    \A a \in Actors : \A s \in DOMAIN received[a] :
        LET r == received[a][s]
            l == ListenerFor(r.notifications, r.line)
        IN  (IsNotification(r.line) /\ l # "throw") =>
                /\ Answers(a, s) = {}
                /\ l = "none" => Invocations(a, s) = {}
                /\ l = "echo" =>
                      /\ Cardinality(Invocations(a, s)) = 1
                      /\ \A j \in Invocations(a, s) :
                            /\ invoked[a][j].registry = "notification"
                            /\ invoked[a][j].params = Get(r.line.obj, "params")

\* A Notification was read, its listener was called and has returned.
C8_Witness ==
    \E s \in DOMAIN received["server"] :
        LET r == received["server"][s]
        IN  /\ IsNotification(r.line)
            /\ ListenerFor(r.notifications, r.line) = "echo"
            /\ Invocations("server", s) # {}
            /\ \A t \in tasks["server"] : t.seq # s

\* C9: a Notification whose listener throws makes the actor write nothing.
C9_FailedNotificationWritesNothing ==
    \A a \in Actors : \A s \in DOMAIN received[a] :
        LET r == received[a][s]
        IN  (IsNotification(r.line)
             /\ ListenerFor(r.notifications, r.line) = "throw") =>
                Answers(a, s) = {}

\* C10 as claimed: every line that is no JSON, the empty line among them,
\* is answered with exactly one Response, with id null and the Parse error.
C10_EveryLineThatIsNoJSON ==
    \A a \in Actors : \A s \in DOMAIN received[a] :
        received[a][s].line.kind \in {"malformed", "empty"} =>
            /\ Cardinality(Answers(a, s)) = 1
            /\ \A j \in Answers(a, s) :
                  written[a][j].msg = Obj(Null, Absent, Absent, Absent, ParseError)

\* C10, amended: a line that is not empty and is no JSON is answered with
\* exactly one Response, with id null and the Parse error; and the loop that
\* read it, unless the actor was stopped, reads on.
C10_OneParseError ==
    \A a \in Actors : \A s \in DOMAIN received[a] :
        received[a][s].line.kind = "malformed" =>
            /\ Cardinality(Answers(a, s)) = 1
            /\ \A j \in Answers(a, s) :
                  written[a][j].msg = Obj(Null, Absent, Absent, Absent, ParseError)

C10_LoopReadsOn ==
    \A a \in Actors : \A i \in DOMAIN loops[a] :
        (read(a, i) /\ Head(inbox[a]).kind = "malformed" /\ isRunning[a]) =>
            loops'[a][i] = "read"

C10_ParseErrorAndLoopGoesOn == []C10_OneParseError /\ [][C10_LoopReadsOn]_vars

\* A line that is no JSON was read and answered, and the line after it was
\* read and dispatched to a listener.
C10_Witness ==
    \E s \in DOMAIN received["server"] :
        /\ received["server"][s].line.kind = "malformed"
        /\ Answers("server", s) # {}
        /\ s + 1 \in DOMAIN received["server"]
        /\ Invocations("server", s + 1) # {}

\* The inbound lines of actor a that are the Request of call k of its peer.
RequestsOfCall(a, k) ==
    { s \in DOMAIN received[a] :
        IsRequest(received[a][s].line) /\ received[a][s].line.obj.id = Num(k) }

Running == \A a \in Actors : isRunning[a]

\* C4: a call sendRequest(m, p), p given, that reached a listener returning
\* its parameter is, once settled, fulfilled with p, and it is not rejected.
C4_EchoFulfilsWithParams ==
    \A a \in Actors : \A k \in DOMAIN calls[a] :
        LET c == calls[a][k]
        IN  (/\ c.params # Undef
             /\ c.st # "pending"
             /\ \E s \in RequestsOfCall(Peer(a), k) :
                   ListenerFor(received[Peer(a)][s].requests,
                               received[Peer(a)][s].line) = "echo") =>
                (c.st = "fulfilled" /\ c.v = c.params)

\* C6: between two running actors, a call for a method the server registers
\* no listener for does not stay pending forever, and a call whose Request
\* met no listener is settled in one way only: rejected with the Method not
\* found error.
C6_SettledAsNotFound ==
    \A a \in Actors : \A k \in DOMAIN calls[a] :
        LET c == calls[a][k]
        IN  (/\ c.st # "pending"
             /\ \E s \in RequestsOfCall(Peer(a), k) :
                   ListenerFor(received[Peer(a)][s].requests,
                               received[Peer(a)][s].line) = "none") =>
                (c.st = "rejected" /\ c.v = MethodNotFound)

C6_Pending(a, k) ==
    /\ Running
    /\ calls[a][k].method \notin RegMethods
    /\ calls[a][k].st = "pending"

C6_NonePending ==
    \A a \in Actors : \A k \in DOMAIN calls[a] : ~C6_Pending(a, k)

C6_UnknownMethodIsRejected == []C6_SettledAsNotFound /\ []<>C6_NonePending

\* The first call of the client, for a method without a listener, was
\* rejected with the Method not found error.
C6_Witness ==
    /\ 1 \in DOMAIN calls["client"]
    /\ calls["client"][1].method \notin RegMethods
    /\ calls["client"][1].st = "rejected"
    /\ calls["client"][1].v = MethodNotFound

\* C7: when a request listener throws, the Response written for the Request
\* has the error {code: -32603, message: "Internal error"}, with no data,
\* and no result; and the call of the requesting actor is rejected with
\* that error, and is so in the end when both actors run.
C7_Threw(a, j) == written[a][j].by = "threw"

C7_Call(a, j) ==
    calls[Peer(a)][received[a][written[a][j].cause].line.obj.id.n]

C7_InternalErrorOnly ==
    \A a \in Actors : \A j \in DOMAIN written[a] :
        C7_Threw(a, j) =>
            /\ written[a][j].msg.error = InternalError
            /\ ~In("result", written[a][j].msg)
            /\ C7_Call(a, j).st # "pending" =>
                  (C7_Call(a, j).st = "rejected" /\ C7_Call(a, j).v = InternalError)

C7_AllRejected ==
    \A a \in Actors : \A j \in DOMAIN written[a] :
        (C7_Threw(a, j) /\ Running) => C7_Call(a, j).st = "rejected"

C7_FailureIsInternalError == []C7_InternalErrorOnly /\ []<>C7_AllRejected

\* The server answered a listener that threw, and the call of the client
\* was rejected with the Internal error.
C7_Witness ==
    \E j \in DOMAIN written["server"] :
        /\ C7_Threw("server", j)
        /\ C7_Call("server", j).st = "rejected"
        /\ C7_Call("server", j).v = InternalError

\* The Requests actor a wrote, in the order sendRequest wrote them.
RequestsSent(a) ==
    SelectSeq(written[a], LAMBDA w : w.by = "sendRequest")

\* C11: the ids sendRequest assigns are 1, 2, 3, ... in the order of the
\* calls, whatever else happens between them (other sends, inbound lines,
\* stop and start): the k-th call has id k, the k-th Request written carries
\* it, and the counter is the number of calls made.
C11_IdsStartAtOneAndNeverRepeat ==
    \A a \in Actors :
        /\ requestID[a] = Len(calls[a])
        /\ Len(RequestsSent(a)) = Len(calls[a])
        /\ \A k \in DOMAIN calls[a] :
              /\ calls[a][k].id = k
              /\ RequestsSent(a)[k].msg.id = Num(k)

\* Two calls are in flight at once, the second made after the actor was
\* stopped or started, and their Requests carry the ids 1 and 2.
C11_Witness ==
    /\ Len(calls["server"]) = 2
    /\ \A k \in 1..2 : calls["server"][k].st = "pending"
    /\ \E j \in DOMAIN written["server"] :
          written["server"][j].msg.id = Num(2)
    /\ isRunning["server"]
    /\ loops["server"] # <<>>

\* The decimal text of the ids the claims speak of.
Decimal == <<"1", "2", "3", "4", "5", "6">>

\* A Response line bears the id k: as the number k or as its decimal text,
\* which is the numeric id the correlation extracts.
BearsId(line, k) ==
    /\ IsObject(line) /\ In("id", line.obj) /\ ~In("method", line.obj)
    /\ \/ line.obj.id = Num(k)
       \/ k \in DOMAIN Decimal /\ line.obj.id = Str(Decimal[k])

\* The step is the return of a read of actor a; LineRead is the line.
ReadReturns(a) == Len(received'[a]) = Len(received[a]) + 1

LineRead(a) == received'[a][Len(received'[a])].line

\* C12: a call is settled at most once, and only in the step that reads a
\* Response bearing its id while it is pending: rejected with the error of
\* the Response if it has one, fulfilled with its result otherwise, its
\* entry removed in that step; the table holds entries for the pending
\* calls alone, so a later Response with the id finds none.
C12_EntriesArePendingCalls ==
    \A a \in Actors :
        /\ DOMAIN unresolvedRequests[a] =
              { k \in DOMAIN calls[a] : calls[a][k].st = "pending" }
        /\ \A k \in DOMAIN unresolvedRequests[a] : unresolvedRequests[a][k] = k

C12_Settling ==
    \A a \in Actors : \A k \in DOMAIN calls[a] :
        LET c == calls[a][k]
            matched == ReadReturns(a) /\ BearsId(LineRead(a), k)
            same == calls'[a][k].st = c.st /\ calls'[a][k].v = c.v
        IN  /\ c.st # "pending" => same
            /\ (c.st = "pending" /\ ~matched) => same
            /\ (c.st = "pending" /\ matched) =>
                  /\ k \notin DOMAIN unresolvedRequests'[a]
                  /\ calls'[a][k] =
                        IF In("error", LineRead(a).obj)
                        THEN [c EXCEPT !.st = "rejected",
                                       !.v = LineRead(a).obj.error]
                        ELSE [c EXCEPT !.st = "fulfilled",
                                       !.v = Get(LineRead(a).obj, "result")]

C12_SettledOnceByOwnResponse ==
    []C12_EntriesArePendingCalls /\ [][C12_Settling]_vars

\* The call was rejected by the first Response bearing its id, and the
\* Response with a result that was read after it settled nothing.
C12_Witness ==
    /\ Len(received["client"]) = 2
    /\ BearsId(received["client"][1].line, 1)
    /\ In("error", received["client"][1].line.obj)
    /\ BearsId(received["client"][2].line, 1)
    /\ ~In("error", received["client"][2].line.obj)
    /\ 1 \in DOMAIN calls["client"]
    /\ calls["client"][1].st = "rejected"
    /\ calls["client"][1].v = received["client"][1].line.obj.error

\* A line classified as a Response: an object with an id and no method.
IsResponseLine(line) ==
    IsObject(line) /\ In("id", line.obj) /\ ~In("method", line.obj)

\* C13: the step that reads a Response whose id is the id of no entry of the
\* pending-call table settles no call, leaves the table as it is, writes
\* nothing (no Parse error either: nothing was thrown) and calls no
\* listener.
C13_Discards ==
    \A a \in Actors :
        (/\ ReadReturns(a)
         /\ IsResponseLine(LineRead(a))
         /\ \A k \in DOMAIN unresolvedRequests[a] : ~BearsId(LineRead(a), k)) =>
            /\ calls'[a] = calls[a]
            /\ unresolvedRequests'[a] = unresolvedRequests[a]
            /\ written'[a] = written[a]
            /\ inbox'[Peer(a)] = inbox[Peer(a)]
            /\ tasks'[a] = tasks[a]
            /\ invoked'[a] = invoked[a]

C13_UnmatchedResponseIsDiscarded == [][C13_Discards]_vars

\* With one call pending, a Response with the id null and a Response with
\* an id never sent were read: the call is still pending and only its
\* Request was ever written.
C13_Witness ==
    /\ Len(received["client"]) = 2
    /\ received["client"][1].line.obj.id = Null
    /\ received["client"][2].line.obj.id = Num(2)
    /\ Len(calls["client"]) = 1
    /\ calls["client"][1].st = "pending"
    /\ DOMAIN unresolvedRequests["client"] = {1}
    /\ Len(written["client"]) = 1

\* C14: a registration for a method that has a listener in the registry
\* it addresses throws and leaves that registry as it was; a registration
\* for a method that has none returns and adds the listener, and changes
\* nothing else of the registry.
C14_Registration ==
    \A a \in Actors : \A m \in RegMethods, l \in Listeners :
        /\ onRequest(a, m, l) =>
              IF m \in DOMAIN requestListeners[a]
              THEN thrown'[a] # "" /\ requestListeners'[a] = requestListeners[a]
              ELSE /\ thrown'[a] = ""
                   /\ DOMAIN requestListeners'[a] =
                         DOMAIN requestListeners[a] \cup {m}
                   /\ requestListeners'[a][m] = l
                   /\ \A x \in DOMAIN requestListeners[a] :
                         requestListeners'[a][x] = requestListeners[a][x]
        /\ onNotification(a, m, l) =>
              IF m \in DOMAIN notificationListeners[a]
              THEN /\ thrown'[a] # ""
                   /\ notificationListeners'[a] = notificationListeners[a]
              ELSE /\ thrown'[a] = ""
                   /\ DOMAIN notificationListeners'[a] =
                         DOMAIN notificationListeners[a] \cup {m}
                   /\ notificationListeners'[a][m] = l
                   /\ \A x \in DOMAIN notificationListeners[a] :
                         notificationListeners'[a][x] = notificationListeners[a][x]

C14_SecondRegistrationFails == [][C14_Registration]_vars

\* onRequest("test", ...) was called a second time and threw: the registry
\* of request listeners holds the listener it held, the other is empty.
C14_Witness ==
    /\ thrown["server"] = AlreadyHasListener("test")
    /\ DOMAIN requestListeners["server"] = {"test"}
    /\ requestListeners["server"]["test"] = "echo"
    /\ notificationListeners["server"] = Empty

\* The read loops of actor a that await a read.
Reading(a) == { i \in DOMAIN loops[a] : loops[a][i] \in {"read", "drain"} }

\* What start and stop may change of actor a, the count of calls aside.
Lifecycled(a) ==
    <<isRunning[a], loops[a], requestID[a], requestListeners[a],
      notificationListeners[a], unresolvedRequests[a], calls[a], inbox,
      tasks[a], written[a], invoked[a]>>

\* C15: start on a running actor changes nothing: no read loop is added, no
\* read is issued; stop on a stopped actor changes nothing.
C15_Redundant ==
    \A a \in Actors :
        /\ (isRunning[a] /\ start(a)) =>
              (Lifecycled(a)' = Lifecycled(a) /\ Reading(a)' = Reading(a))
        /\ (~isRunning[a] /\ stop(a)) =>
              (Lifecycled(a)' = Lifecycled(a) /\ Reading(a)' = Reading(a))

C15_StartWhileRunningIsNoOp == [][C15_Redundant]_vars

\* C16: a Request with id k that sendRequest wrote, and whose call is not
\* settled, has the entry k in the pending-call table; and between two
\* actors a Response for k is never read before that: a Response bearing k
\* that was read is for a call that was made and is settled.
C16_EntryBeforeWrite ==
    \A a \in Actors :
        /\ \A j \in DOMAIN written[a] :
              written[a][j].by = "sendRequest" =>
                  LET k == written[a][j].msg.id.n
                  IN  /\ k \in DOMAIN calls[a]
                      /\ calls[a][k].st = "pending" =>
                            k \in DOMAIN unresolvedRequests[a]
        /\ \A s \in DOMAIN received[a] : \A k \in 1..MaxCalls + 1 :
              BearsId(received[a][s].line, k) =>
                  (k \in DOMAIN calls[a] /\ calls[a][k].st # "pending")

\* The server has answered the Request of a call before the client read
\* anything: the Response waits on the transport and the entry is there.
C16_Witness ==
    /\ 1 \in DOMAIN calls["client"]
    /\ calls["client"][1].st = "pending"
    /\ 1 \in DOMAIN unresolvedRequests["client"]
    /\ received["client"] = <<>>
    /\ inbox["client"] # <<>>
    /\ BearsId(Head(inbox["client"]), 1)

\* C17: a loop that awaited a read when stop was called reads no more:
\* when that read returns the loop ends, whatever was called since the
\* stop, a later start included.
C17_Drains ==
    \A a \in Actors : \A i \in DOMAIN loops[a] :
        loops[a][i] = "drain" => loops'[a][i] \in {"drain", "exit"}

C17_StoppedLoopExits == [][C17_Drains]_vars

\* C18: a call that was pending when stop was called is not fulfilled and
\* not rejected from then on, and its entry stays in the table.
C18_StaysPending ==
    \A a \in Actors : \A k \in DOMAIN calls[a] :
        calls[a][k].atStop =>
            /\ calls'[a][k].st = "pending"
            /\ k \in DOMAIN unresolvedRequests'[a]

C18_PendingAtStopIsNeverSettled == [][C18_StaysPending]_vars

\* The listener the registries of actor a hold, in the state, for a line
\* ("none": the line is no Request or Notification with a listener).
Dispatched(a, line) ==
    IF IsRequest(line) THEN ListenerFor(requestListeners[a], line)
    ELSE IF IsNotification(line) THEN ListenerFor(notificationListeners[a], line)
    ELSE "none"

\* C19: the lines are initiated in the order the reads return them. The
\* listener of a line is called in the step its read returns, and a call a
\* Response settles is settled in that step; no listener is called and no
\* call is settled in any other step, so the listener calls follow the
\* order of the lines, while the Responses written may not.
C19_InOrder ==
    \A a \in Actors :
        /\ \A j1, j2 \in DOMAIN invoked[a] :
              j1 < j2 => invoked[a][j1].seq < invoked[a][j2].seq
        /\ \A t \in tasks[a] : Invocations(a, t.seq) # {}

C19_Initiates ==
    \A a \in Actors :
        IF ReadReturns(a)
        THEN /\ Dispatched(a, LineRead(a)) # "none" =>
                   /\ Len(invoked'[a]) = Len(invoked[a]) + 1
                   /\ invoked'[a][Len(invoked'[a])].seq = Len(received'[a])
                   /\ \A j \in DOMAIN invoked[a] : invoked'[a][j] = invoked[a][j]
             /\ Dispatched(a, LineRead(a)) = "none" => invoked'[a] = invoked[a]
             /\ \A k \in DOMAIN calls[a] :
                   IF BearsId(LineRead(a), k) /\ calls[a][k].st = "pending"
                   THEN calls'[a][k].st # "pending"
                   ELSE calls'[a][k].st = calls[a][k].st
        ELSE /\ invoked'[a] = invoked[a]
             /\ \A k \in DOMAIN calls[a] : calls'[a][k].st = calls[a][k].st

C19_InitiationOrderIsPreserved == []C19_InOrder /\ [][C19_Initiates]_vars

\* Two Requests were read and their listeners called in that order; the
\* second has been answered while the listener of the first is suspended.
C19_Witness ==
    /\ Len(received["server"]) = 2
    /\ IsRequest(received["server"][1].line)
    /\ IsRequest(received["server"][2].line)
    /\ Len(invoked["server"]) = 2
    /\ \E t \in tasks["server"] : t.seq = 1 /\ t.pc = "listener"
    /\ \A t \in tasks["server"] : t.seq # 2
    /\ Answers("server", 1) = {}
    /\ Answers("server", 2) # {}

\* C20: a loop that awaits a read takes the next line as soon as the
\* transport has one, whatever listeners are suspended, so the line after a
\* message whose listener never returns is read and dispatched.
C20_LoopNeverWaits ==
    \A a \in Actors : \A i \in DOMAIN loops[a] :
        (loops[a][i] \in {"read", "drain"} /\ inbox[a] # <<>>) =>
            ENABLED read(a, i)

\* While the listener of the first Request is suspended, the second line, a
\* Request for a method without a listener, was read and answered, and the
\* loop awaits the third.
C20_Witness ==
    /\ \E t \in tasks["server"] : t.seq = 1 /\ t.pc = "listener"
    /\ Len(received["server"]) = 2
    /\ ListenerFor(received["server"][2].requests,
                   received["server"][2].line) = "none"
    /\ \E j \in Answers("server", 2) :
          written["server"][j].msg.error = MethodNotFound
    /\ Answers("server", 1) = {}
    /\ \E i \in DOMAIN loops["server"] : loops["server"][i] = "read"

\* C21: a decoded object is handled on one path, chosen by its members. With
\* id and method it is a Request: the request listener of its method is
\* called once, or Method not found is written when there is none. With id
\* and no method it is a Response: no listener is called and nothing is
\* written. With method and no id it is a Notification: the notification
\* listener of its method is called once, or nothing is, and nothing is
\* written as for a Request. Calls are settled by Responses alone.
C21_RoutedByMembers ==
    \A a \in Actors :
        /\ \A s \in DOMAIN received[a] :
              LET r == received[a][s]
                  o == r.line.obj
                  called(registry, l) ==
                      /\ \A j \in Invocations(a, s) :
                            invoked[a][j].registry = registry
                      /\ Cardinality(Invocations(a, s)) =
                            IF l = "none" THEN 0 ELSE 1
              IN  IsObject(r.line) =>
                    /\ (In("id", o) /\ In("method", o)) =>
                          /\ called("request", ListenerFor(r.requests, r.line))
                          /\ ListenerFor(r.requests, r.line) = "none" =>
                                \E j \in Answers(a, s) :
                                    written[a][j].msg.error = MethodNotFound
                    /\ (In("id", o) /\ ~In("method", o)) =>
                          (Invocations(a, s) = {} /\ Answers(a, s) = {})
                    /\ (~In("id", o) /\ In("method", o)) =>
                          /\ called("notification",
                                    ListenerFor(r.notifications, r.line))
                          /\ \A j \in Answers(a, s) :
                                /\ written[a][j].msg.error # MethodNotFound
                                /\ ~In("result", written[a][j].msg)
        /\ (\A s \in DOMAIN received[a] : ~IsResponseLine(received[a][s].line))
              => \A k \in DOMAIN calls[a] : calls[a][k].st = "pending"

\* With a notification listener for "test" and no request listener, a
\* Request and a Notification for "test" were read: the Request was answered
\* Method not found, the Notification reached the listener.
C21_Witness ==
    \E s1, s2 \in DOMAIN received["server"] :
        /\ IsRequest(received["server"][s1].line)
        /\ IsNotification(received["server"][s2].line)
        /\ "test" \notin DOMAIN received["server"][s1].requests
        /\ "test" \in DOMAIN received["server"][s2].notifications
        /\ Invocations("server", s1) = {}
        /\ \E j \in Answers("server", s1) :
              written["server"][j].msg.error = MethodNotFound
        /\ \E j \in Invocations("server", s2) :
              invoked["server"][j].registry = "notification"

\* A decoded object with no id and no method.
IsUnclassified(line) ==
    IsObject(line) /\ ~In("id", line.obj) /\ ~In("method", line.obj)

\* C22: a decoded object with neither a method nor an id is dropped: the
\* step that reads it calls no listener, settles no call, leaves the table
\* as it is and writes nothing, and nothing is ever written or called
\* because of it.
C22_NothingBecauseOfIt ==
    \A a \in Actors : \A s \in DOMAIN received[a] :
        IsUnclassified(received[a][s].line) =>
            /\ Answers(a, s) = {}
            /\ Invocations(a, s) = {}
            /\ \A t \in tasks[a] : t.seq # s

C22_Drops ==
    \A a \in Actors :
        (ReadReturns(a) /\ IsUnclassified(LineRead(a))) =>
            /\ calls'[a] = calls[a]
            /\ unresolvedRequests'[a] = unresolvedRequests[a]
            /\ written'[a] = written[a]
            /\ inbox'[Peer(a)] = inbox[Peer(a)]
            /\ tasks'[a] = tasks[a]
            /\ invoked'[a] = invoked[a]

C22_UnclassifiedIsDropped == []C22_NothingBecauseOfIt /\ [][C22_Drops]_vars

\* With listeners registered for requests and for notifications, an object
\* with no id and no method was read, and nothing was written or called.
C22_Witness ==
    \E s \in DOMAIN received["server"] :
        /\ IsUnclassified(received["server"][s].line)
        /\ received["server"][s].requests # Empty
        /\ received["server"][s].notifications # Empty
        /\ written["server"] = <<>>
        /\ invoked["server"] = <<>>

\* C23: every Response _handleRequest writes for a Request carries a number
\* as its id on the wire, whatever the id of the Request was: a number, the
\* text of a number, any other text, null.
C23_EchoedIdIsANumber ==
    \A a \in Actors : \A s \in DOMAIN received[a] :
        IsRequest(received[a][s].line) =>
            \A j \in Answers(a, s) :
                written[a][j].by \in {"notFound", "returned", "threw"} =>
                    written[a][j].msg.id.t = "number"

\* C24: for a Request the actor writes one Response: never a second, and
\* the one is there once the handling of the Request has ended, whether
\* there was no listener, the listener returned or the listener threw.
C24_ExactlyOneResponse ==
    \A a \in Actors : \A s \in DOMAIN received[a] :
        IsRequest(received[a][s].line) =>
            /\ Cardinality(Answers(a, s)) <= 1
            /\ (\A t \in tasks[a] : t.seq # s) =>
                  Cardinality(Answers(a, s)) = 1

\* C25: a Response with the Parse error that the actor writes because of
\* an inbound line is written for a line that is no JSON, never for a line
\* that decodes: an object of any shape, a value that is no object, a
\* message whose listener fails.
C25_ParseErrorOnlyForUndecodable ==
    \A a \in Actors : \A j \in DOMAIN written[a] :
        (written[a][j].msg.error = ParseError /\ written[a][j].cause # 0) =>
            received[a][written[a][j].cause].line.kind = "malformed"

\* C26: nothing is written because of an inbound Response, whether its id
\* is that of a pending call or not, and no listener is left suspended by
\* it: what an actor writes, it writes for its embedder or because of a
\* line that is no Response, so two actors do not answer each other's
\* Responses.
C26_ResponseIsNeverAnswered ==
    \A a \in Actors :
        /\ \A s \in DOMAIN received[a] :
              IsResponseLine(received[a][s].line) =>
                  /\ Answers(a, s) = {}
                  /\ \A t \in tasks[a] : t.seq # s
        /\ \A j \in DOMAIN written[a] :
              written[a][j].cause # 0 =>
                  ~IsResponse(received[a][written[a][j].cause].line.obj)
                  \/ ~IsObject(received[a][written[a][j].cause].line)

\* The client read the two Responses the server wrote for a Request whose
\* listener threw, the Internal error that rejected its call and the Parse
\* error with the id null that matched nothing, and wrote nothing but its
\* Request.
C26_Witness ==
    /\ Len(received["client"]) = 2
    /\ received["client"][1].line.obj.error = InternalError
    /\ received["client"][2].line.obj.id = Null
    /\ received["client"][2].line.obj.error = ParseError
    /\ calls["client"][1].st = "rejected"
    /\ Len(written["client"]) = 1
    /\ inbox["server"] = <<>>

=============================================================================
